---------------------------- MODULE Spec2Model ----------------------------
(***************************************************************************)
(* Model of the two batch programs of gpt_pdf_ocr:                         *)
(*   ocr_gptepolish_ensemble.py  (ensemble mode: one subdirectory of OCR   *)
(*                                transcriptions per scanned document)     *)
(*   ocr_gptpolish.py            (polish mode: one OCR file per document)  *)
(*                                                                         *)
(* Texts and file names are sequences of one-character strings, so that    *)
(* f-string formatting, str.replace and str.endswith are computed on the   *)
(* characters.  The two fixed system prompts are kept as the sequence of   *)
(* string literals the source concatenates.                                *)
(***************************************************************************)
EXTENDS Naturals, Sequences, FiniteSets, TLC

\* ------------------------------------------------------------------ bounds

\* Largest number of candidate texts handed to construct_messages.
MaxCands == 2

\* Largest number of entries of the corpus directory.
MaxEntries == 4

\* ----------------------------------------------------------------- strings

NL == "\n"

Digit == <<"0", "1", "2", "3", "4", "5", "6", "7", "8", "9">>

\* str(i) for a natural number, as the f-string field {i} formats it.
RECURSIVE IntToStr(_)
IntToStr(i) ==
    IF i < 10 THEN <<Digit[i + 1]>>
    ELSE IntToStr(i \div 10) \o <<Digit[(i % 10) + 1]>>

DigitValue(c) == (CHOOSE d \in 1..10 : Digit[d] = c) - 1

IsDigit(c) == \E d \in 1..10 : Digit[d] = c

\* int(s) for a string of decimal digits.
RECURSIVE StrToInt(_)
StrToInt(s) ==
    IF s = <<>> THEN 0
    ELSE 10 * StrToInt(SubSeq(s, 1, Len(s) - 1)) + DigitValue(s[Len(s)])

\* sub in s
Contains(s, sub) ==
    \E k \in 0..(Len(s) - Len(sub)) : SubSeq(s, k + 1, k + Len(sub)) = sub

\* s.startswith(pre)
StartsWith(s, pre) == Len(s) >= Len(pre) /\ SubSeq(s, 1, Len(pre)) = pre

\* s.endswith(suf)
EndsWith(s, suf) ==
    Len(s) >= Len(suf) /\ SubSeq(s, Len(s) - Len(suf) + 1, Len(s)) = suf

\* s.replace(old, new): every non-overlapping occurrence, scanning from the left.
RECURSIVE StrReplace(_, _, _)
StrReplace(s, old, new) ==
    IF Len(s) < Len(old) THEN s
    ELSE IF SubSeq(s, 1, Len(old)) = old
         THEN new \o StrReplace(SubSeq(s, Len(old) + 1, Len(s)), old, new)
         ELSE <<Head(s)>> \o StrReplace(Tail(s), old, new)

\* "".join(parts)
RECURSIVE Concat(_)
Concat(parts) == IF parts = <<>> THEN <<>> ELSE Head(parts) \o Concat(Tail(parts))

\* Index of the first NL of s, 0 when there is none.
FirstNL(s) ==
    IF \E k \in 1..Len(s) : s[k] = NL
    THEN CHOOSE k \in 1..Len(s) : s[k] = NL /\ \A j \in 1..(k - 1) : s[j] # NL
    ELSE 0

\* ------------------------------------------------- ensemble construct_messages

\* "#### OCR-transkription "
EnsLabelHead ==
    <<"#", "#", "#", "#", " ", "O", "C", "R", "-", "t", "r", "a", "n", "s",
      "k", "r", "i", "p", "t", "i", "o", "n", " ">>

\* ": #### \n"
EnsLabelTail == <<":", " ", "#", "#", "#", "#", " ", NL>>

\* f"#### OCR-transkription {i}: #### \n"
EnsLabel(i) == EnsLabelHead \o IntToStr(i) \o EnsLabelTail

EnsSystemPrompt ==
    << "Du har en mycket viktig uppgift!\n\n",
       "#### DIN UPPGIFT ####\n",
       "Din uppgift är att ordagrant återskapa texten från ett inscannat dokument. ",
       "För att göra detta kommer du få tillgång till en eller flera OCR-transkriptioner av dokumentet.\n\n",
       "#### DETALJER #### \n\n",
       "Analysera de tillgängliga OCR-transkriptionerna och konstruera baserat på dem den ",
       "mest exakta ordagranna transkriptionen av originaldokumentet. ",
       "Ta hänsyn till skillnader mellan transkriptionerna, såväl som löptextens innebörd och sammanhang.\n\n" >>

\* The user message of the i-th transcription.
EnsUserMessage(i, ocr) ==
    [role |-> "user", content |-> EnsLabel(i) \o ocr \o <<NL, NL>>]

\* A builder that numbers the transcriptions from 0 (enumerate without start=1).
construct_messages_from0(ocrs) ==
    <<[role |-> "system", content |-> EnsSystemPrompt]>>
        \o [i \in 1..Len(ocrs) |-> EnsUserMessage(i - 1, ocrs[i])]

\* A builder that labels every transcription with the number of the last one.
construct_messages_lastlabel(ocrs) ==
    <<[role |-> "system", content |-> EnsSystemPrompt]>>
        \o [i \in 1..Len(ocrs) |-> EnsUserMessage(Len(ocrs), ocrs[i])]

construct_messages(ocrs) ==
    <<[role |-> "system", content |-> EnsSystemPrompt]>>
        \o [i \in 1..Len(ocrs) |-> EnsUserMessage(i, ocrs[i])]

\* --------------------------------------------------- polish construct_messages

\* "#### OCR-transkription: #### \n"
PolLabel ==
    <<"#", "#", "#", "#", " ", "O", "C", "R", "-", "t", "r", "a", "n", "s",
      "k", "r", "i", "p", "t", "i", "o", "n", ":", " ", "#", "#", "#", "#",
      " ", NL>>

PolSystemPrompt ==
    << "Du har en mycket viktig uppgift!\n\n",
       "#### DIN UPPGIFT ####\n",
       "En mjukvara har producerat följande OCR av en pdf.\n",
       "Ditt jobb är följande: Med hjälp av den presenterade OCRen ska du återskapa texten i dokumentet, så ordagrannt som möjligt.\n\n",
       "#### DETALJER #### \n\n",
       "Du är strikt förbjuden att ändra på innehållet i dokumentet och det är av yttersta vikt att det du returnerar ska vara så nära originalet du kan förmå. ",
       "Om det finns tecken eller symboler du ej kan avläsa, ersätt dem med en asterix: '*'\n\n" >>

\* A builder that embeds the text once.
polish_construct_messages_once(ocr) ==
    << [role |-> "system", content |-> PolSystemPrompt],
       [role |-> "user", content |-> PolLabel \o ocr] >>

polish_construct_messages(ocr) ==
    << [role |-> "system", content |-> PolSystemPrompt],
       [role |-> "user", content |-> PolLabel \o ocr \o <<NL, NL>> \o ocr] >>

\* ------------------------------------------------------ reading a payload back

\* The header line of a user message: everything before the first newline.
SegHeader(content) == SubSeq(content, 1, FirstNL(content) - 1)

\* The number a header line carries between "#### OCR-transkription " and ": #### ".
SegLabel(content) ==
    LET h == SegHeader(content)
        digits == SubSeq(h, Len(EnsLabelHead) + 1, Len(h) - (Len(EnsLabelTail) - 1))
    IN  IF StartsWith(h, EnsLabelHead)
           /\ EndsWith(h, SubSeq(EnsLabelTail, 1, Len(EnsLabelTail) - 1))
           /\ digits # <<>>
           /\ \A k \in 1..Len(digits) : IsDigit(digits[k])
        THEN StrToInt(digits)
        ELSE 0

\* The transcription a user message carries: what follows the header line,
\* without the two closing newlines.
SegText(content) == SubSeq(content, FirstNL(content) + 1, Len(content) - 2)

UserSegments(messages) == SelectSeq(messages, LAMBDA m : m.role = "user")

\* ------------------------------------------------------------------- inputs

TextA == <<"a">>

TextB == <<"b", NL, "c">>

\* A transcription that itself holds the header line of transcription 2.
TextQuote == EnsLabel(2) \o <<"x">>

Texts == {<<>>, TextA, TextB, TextQuote}

SeqsUpTo(S, n) == UNION {[1..k -> S] : k \in 0..n}

CandidateLists == SeqsUpTo(Texts, MaxCands)

\* The bijections of 1..n.
Perms(n) == {p \in [1..n -> 1..n] : \A i, j \in 1..n : p[i] = p[j] => i = j}

Permuted(s, p) == [i \in 1..Len(s) |-> s[p[i]]]


\* ------------------------------------------------------- the corpus directory

DotTxt == <<".", "t", "x", "t">>

File(name, text) == [name |-> name, kind |-> "file", files |-> <<>>, text |-> text]

Dir(name, files) == [name |-> name, kind |-> "dir", files |-> files, text |-> <<>>]

\* Ensemble mode: DIR_PATH holds one subdirectory per scanned document.
EnsAll ==
    << Dir(<<"d", "1">>, << File(<<"a">> \o DotTxt, TextA), File(<<"b">> \o DotTxt, TextB) >>),
       Dir(<<"d", "2">>, << File(<<"n", ".", "m", "d">>, TextA) >>),
       File(<<"x">> \o DotTxt, TextA),
       Dir(<<"d", "3">>, << File(<<"c">> \o DotTxt, TextB) >>),
       Dir(<<"d", "4">>, << File(<<"e">> \o DotTxt, TextA) >>) >>

\* Polish mode: ABBYY_OCR holds one file per scanned document.
PolAll ==
    << File(<<"A", "B", "B", "Y", "Y", "1">>, TextA),
       File(<<"P", "R", "O", "C", "E", "S", "S", "E", "D", "1">>, TextB),
       Dir(<<"o", "l", "d">>, <<>>),
       File(<<"A", "B", "B", "Y", "Y", "2">>, TextQuote),
       File(<<"n", "o", "t", "e", "s">>, TextB) >>

Pool(m) == IF m = "ensemble" THEN SubSeq(EnsAll, 1, MaxEntries)
           ELSE SubSeq(PolAll, 1, MaxEntries)

Range(s) == {s[i] : i \in 1..Len(s)}

\* What os.listdir may return: the entries that exist, in any order.
Listings(m) ==
    {l \in SeqsUpTo(Range(Pool(m)), MaxEntries) :
        \A i, j \in 1..Len(l) : l[i] = l[j] => i = j}

\* ---------------------------------------------------------------- the state

VARIABLES
    mode,          \* which program runs: "ensemble" or "polish"
    dirExists,     \* DIR_PATH exists
    abbyyExists,   \* polish: DIR_PATH/ABBYY_OCR exists
    entries,       \* os.listdir of the corpus directory
    pc,            \* position of main
    docs,          \* subdirectories (ensemble) / file_paths (polish)
    idx,           \* position of the for loop in docs
    ocrs,          \* ensemble: the list get_ocrs returned
    ocr,           \* polish: the text get_ocr returned
    messages,      \* the payload of the current document
    content,       \* response.choices[0].message.content
    inflight,      \* service calls sent and not yet answered
    calls,         \* answered service calls: [doc, payload, reply]
    outDirExists,  \* SAVE_DIR / PROCESSED_OCR exists
    fs,            \* the output directory: artifact name -> content
    writes,        \* the files written, in order: [doc, name, content]
    trace,         \* the steps completed, in order: [op, doc]
    error,         \* the exception that ended main, "" when none
    argOcrs,       \* builder run: the candidate list passed in
    argOcr,        \* builder run: the single text passed in
    argPerm,       \* builder run: the permutation applied to argOcrs
    retEnsemble,   \* construct_messages(argOcrs)
    retPermuted,   \* construct_messages(argOcrs permuted by argPerm)
    retPolish,     \* polish construct_messages(argOcr)
    called         \* builder run: the builder calls made so far

batchVars == <<mode, dirExists, abbyyExists, entries, pc, docs, idx, ocrs, ocr,
               messages, content, inflight, calls, outDirExists, fs, writes,
               trace, error>>

builderVars == <<argOcrs, argOcr, argPerm, retEnsemble, retPermuted, retPolish, called>>

vars == <<batchVars, builderVars>>

NoFiles == [n \in {} |-> <<>>]

\* ------------------------------------------------------------------ helpers

IsDir(e) == e.kind = "dir"

IsFile(e) == e.kind = "file"

\* The .txt files of a subdirectory, in listing order.
TxtFiles(d) == SelectSeq(d.files, LAMBDA f : EndsWith(f.name, DotTxt))

get_ocrs(d) == [i \in 1..Len(TxtFiles(d)) |-> TxtFiles(d)[i].text]

EnsembleSuffix == <<"-", "e", "n", "s", "e", "m", "b", "l", "e">> \o DotTxt

\* An artifact name that leaves the subdirectory's name out.
EnsArtifactNameFixed(d) == <<"o", "u", "t">> \o EnsembleSuffix

\* f'{s_name}-ensemble.txt'
EnsArtifactName(d) == d.name \o EnsembleSuffix

ABBYY == <<"A", "B", "B", "Y", "Y">>

PROCESSED == <<"P", "R", "O", "C", "E", "S", "S", "E", "D">>

\* os.path.basename(file_path).replace("ABBYY", "PROCESSED")
PolArtifactName(d) == StrReplace(d.name, ABBYY, PROCESSED)

ArtifactName(m, d) == IF m = "ensemble" THEN EnsArtifactName(d) ELSE PolArtifactName(d)

\* open(file_path, 'w').write(content): creates or replaces the file.
WriteFile(f, name, text) ==
    [n \in (DOMAIN f) \cup {name} |-> IF n = name THEN text ELSE f[n]]

\* The payload the program builds for a document.
Payload(m, d) == IF m = "ensemble" THEN construct_messages(get_ocrs(d))
                 ELSE polish_construct_messages(d.text)

\* A service that answers with the user messages it was sent, joined.
Echo(msgs) == Concat([i \in 1..Len(UserSegments(msgs)) |-> UserSegments(msgs)[i].content])

\* What the service may answer to a payload.
Replies(msgs) == {Echo(msgs), <<"o", "k">>}

Event(op, k) == [op |-> op, doc |-> k]


\* --------------------------------------------------------------- the batch

BuilderIdle ==
    /\ argOcrs = <<>> /\ argOcr = <<>> /\ argPerm = <<>>
    /\ retEnsemble = <<>> /\ retPermuted = <<>> /\ retPolish = <<>>
    /\ called = {}

\* The state when main is entered: nothing read, nothing sent, the output
\* directory not yet created.
Init ==
    /\ mode \in {"ensemble", "polish"}
    /\ dirExists \in BOOLEAN
    /\ abbyyExists \in (IF mode = "polish" /\ dirExists THEN BOOLEAN ELSE {dirExists})
    /\ entries \in (IF dirExists /\ abbyyExists THEN Listings(mode) ELSE {<<>>})
    /\ pc = "main"
    /\ docs = <<>>
    /\ idx = 1
    /\ ocrs = <<>>
    /\ ocr = <<>>
    /\ messages = <<>>
    /\ content = <<>>
    /\ inflight = 0
    /\ calls = <<>>
    /\ outDirExists = FALSE
    /\ fs = NoFiles
    /\ writes = <<>>
    /\ trace = <<>>
    /\ error = ""
    /\ BuilderIdle

\* ensemble main, line 179: os.listdir(DIR_PATH) raises when DIR_PATH is
\* missing; otherwise the subdirectories are kept, in listing order.
EnsListDir ==
    /\ mode = "ensemble" /\ pc = "main"
    /\ IF dirExists
       THEN /\ docs' = SelectSeq(entries, IsDir)
            /\ idx' = 1
            /\ pc' = "for"
            /\ error' = error
       ELSE /\ pc' = "raised"
            /\ error' = "FileNotFoundError"
            /\ UNCHANGED <<docs, idx>>
    /\ UNCHANGED <<mode, dirExists, abbyyExists, entries, ocrs, ocr, messages,
                   content, inflight, calls, outDirExists, fs, writes, trace>>
    /\ UNCHANGED builderVars

\* polish main, lines 131-144: a missing DIR_PATH or ABBYY_OCR prints a
\* message and returns; otherwise PROCESSED_OCR is created and the files of
\* ABBYY_OCR are kept, in listing order.
PolListDir ==
    /\ mode = "polish" /\ pc = "main"
    /\ IF dirExists /\ abbyyExists
       THEN /\ outDirExists' = TRUE
            /\ docs' = SelectSeq(entries, IsFile)
            /\ idx' = 1
            /\ pc' = "for"
       ELSE /\ pc' = "returned"
            /\ UNCHANGED <<outDirExists, docs, idx>>
    /\ UNCHANGED <<mode, dirExists, abbyyExists, entries, ocrs, ocr, messages,
                   content, inflight, calls, fs, writes, trace, error>>
    /\ UNCHANGED builderVars

\* The head of the for loop: the next document, or print("DONE").
ForNext ==
    /\ pc = "for"
    /\ pc' = IF idx <= Len(docs) THEN "load" ELSE "done"
    /\ UNCHANGED <<mode, dirExists, abbyyExists, entries, docs, idx, ocrs, ocr,
                   messages, content, inflight, calls, outDirExists, fs, writes,
                   trace, error>>
    /\ UNCHANGED builderVars

\* A loader that keeps the transcriptions of the documents before.
EnsGetOcrsKeep ==
    /\ mode = "ensemble" /\ pc = "load"
    /\ ocrs' = ocrs \o get_ocrs(docs[idx])
    /\ trace' = Append(trace, Event("load", idx))
    /\ pc' = "build"
    /\ UNCHANGED <<mode, dirExists, abbyyExists, entries, docs, idx, ocr,
                   messages, content, inflight, calls, outDirExists, fs, writes,
                   error>>
    /\ UNCHANGED builderVars

\* process_subdirectory, line 150: every .txt file is read.
EnsGetOcrs ==
    /\ mode = "ensemble" /\ pc = "load"
    /\ ocrs' = get_ocrs(docs[idx])
    /\ trace' = Append(trace, Event("load", idx))
    /\ pc' = "build"
    /\ UNCHANGED <<mode, dirExists, abbyyExists, entries, docs, idx, ocr,
                   messages, content, inflight, calls, outDirExists, fs, writes,
                   error>>
    /\ UNCHANGED builderVars

\* get_ocr raises on a file it cannot decode (there must be a file to read).
EnsGetOcrsRaise ==
    /\ mode = "ensemble" /\ pc = "load"
    /\ TxtFiles(docs[idx]) # <<>>
    /\ pc' = "raised"
    /\ error' = "UnicodeDecodeError"
    /\ UNCHANGED <<mode, dirExists, abbyyExists, entries, docs, idx, ocrs, ocr,
                   messages, content, inflight, calls, outDirExists, fs, writes,
                   trace>>
    /\ UNCHANGED builderVars

\* polish main, line 148.
PolGetOcr ==
    /\ mode = "polish" /\ pc = "load"
    /\ ocr' = docs[idx].text
    /\ trace' = Append(trace, Event("load", idx))
    /\ pc' = "build"
    /\ UNCHANGED <<mode, dirExists, abbyyExists, entries, docs, idx, ocrs,
                   messages, content, inflight, calls, outDirExists, fs, writes,
                   error>>
    /\ UNCHANGED builderVars

PolGetOcrRaise ==
    /\ mode = "polish" /\ pc = "load"
    /\ pc' = "raised"
    /\ error' = "UnicodeDecodeError"
    /\ UNCHANGED <<mode, dirExists, abbyyExists, entries, docs, idx, ocrs, ocr,
                   messages, content, inflight, calls, outDirExists, fs, writes,
                   trace>>
    /\ UNCHANGED builderVars

\* process_subdirectory line 151 / polish main line 149.
Construct ==
    /\ pc = "build"
    /\ messages' = IF mode = "ensemble" THEN construct_messages(ocrs)
                   ELSE polish_construct_messages(ocr)
    /\ trace' = Append(trace, Event("build", idx))
    /\ pc' = "generate"
    /\ UNCHANGED <<mode, dirExists, abbyyExists, entries, docs, idx, ocrs, ocr,
                   content, inflight, calls, outDirExists, fs, writes, error>>
    /\ UNCHANGED builderVars

\* generate_response: the request is sent and main blocks.
GenerateCall ==
    /\ pc = "generate"
    /\ inflight' = inflight + 1
    /\ trace' = Append(trace, Event("call", idx))
    /\ pc' = "await"
    /\ UNCHANGED <<mode, dirExists, abbyyExists, entries, docs, idx, ocrs, ocr,
                   messages, content, calls, outDirExists, fs, writes, error>>
    /\ UNCHANGED builderVars

\* The service answers; content = response.choices[0].message.content.
GenerateReturn ==
    /\ pc = "await"
    /\ \E r \in Replies(messages) :
         /\ content' = r
         /\ calls' = Append(calls, [doc |-> idx, payload |-> messages, reply |-> r])
    /\ inflight' = inflight - 1
    /\ trace' = Append(trace, Event("reply", idx))
    /\ pc' = "save"
    /\ UNCHANGED <<mode, dirExists, abbyyExists, entries, docs, idx, ocrs, ocr,
                   messages, outDirExists, fs, writes, error>>
    /\ UNCHANGED builderVars

\* A driver that catches the failure of a service call, notes it, and goes
\* on with the next document.
GenerateRaiseSkip ==
    /\ pc = "await"
    /\ inflight' = inflight - 1
    /\ error' = "APIError"
    /\ idx' = idx + 1
    /\ pc' = "for"
    /\ UNCHANGED <<mode, dirExists, abbyyExists, entries, docs, ocrs, ocr,
                   messages, content, calls, outDirExists, fs, writes, trace>>
    /\ UNCHANGED builderVars

\* The service call raises; nothing catches it.
GenerateRaise ==
    /\ pc = "await"
    /\ inflight' = inflight - 1
    /\ pc' = "raised"
    /\ error' = "APIError"
    /\ UNCHANGED <<mode, dirExists, abbyyExists, entries, docs, idx, ocrs, ocr,
                   messages, content, calls, outDirExists, fs, writes, trace>>
    /\ UNCHANGED builderVars

\* save_response (ensemble) / lines 154-158 (polish): the artifact is written
\* and the loop goes on to the next document.
Save ==
    /\ pc = "save"
    /\ outDirExists' = TRUE
    /\ fs' = WriteFile(fs, ArtifactName(mode, docs[idx]), content)
    /\ writes' = Append(writes, [doc |-> idx,
                                 name |-> ArtifactName(mode, docs[idx]),
                                 content |-> content])
    /\ trace' = Append(trace, Event("write", idx))
    /\ idx' = idx + 1
    /\ pc' = "for"
    /\ UNCHANGED <<mode, dirExists, abbyyExists, entries, docs, ocrs, ocr,
                   messages, content, inflight, calls, error>>
    /\ UNCHANGED builderVars

Next ==
    \/ EnsListDir
    \/ PolListDir
    \/ ForNext
    \/ EnsGetOcrs
    \/ EnsGetOcrsRaise
    \/ PolGetOcr
    \/ PolGetOcrRaise
    \/ Construct
    \/ GenerateCall
    \/ GenerateReturn
    \/ GenerateRaise
    \/ Save

Spec == Init /\ [][Next]_vars

\* main is one thread that runs until it returns or raises.
FairSpec == Spec /\ WF_vars(Next)


\* ------------------------------------------------- the builders on their own

BatchIdle ==
    /\ mode = "ensemble" /\ dirExists = TRUE /\ abbyyExists = TRUE
    /\ entries = <<>> /\ pc = "idle" /\ docs = <<>> /\ idx = 1
    /\ ocrs = <<>> /\ ocr = <<>> /\ messages = <<>> /\ content = <<>>
    /\ inflight = 0 /\ calls = <<>> /\ outDirExists = FALSE /\ fs = NoFiles
    /\ writes = <<>> /\ trace = <<>> /\ error = ""

\* Any candidate list and any single text may be handed to the builders.
InitBuild ==
    /\ BatchIdle
    /\ argOcrs \in CandidateLists
    /\ argOcr \in Texts
    /\ argPerm = <<>>
    /\ retEnsemble = <<>>
    /\ retPermuted = <<>>
    /\ retPolish = <<>>
    /\ called = {}

CallEnsemble ==
    /\ "ensemble" \notin called
    /\ retEnsemble' = construct_messages(argOcrs)
    /\ called' = called \cup {"ensemble"}
    /\ UNCHANGED <<argOcrs, argOcr, argPerm, retPermuted, retPolish>>
    /\ UNCHANGED batchVars

\* The same candidates handed over in another order.
CallPermuted ==
    /\ "ensemble" \in called /\ "permuted" \notin called
    /\ \E p \in Perms(Len(argOcrs)) :
         /\ argPerm' = p
         /\ retPermuted' = construct_messages(Permuted(argOcrs, p))
    /\ called' = called \cup {"permuted"}
    /\ UNCHANGED <<argOcrs, argOcr, retEnsemble, retPolish>>
    /\ UNCHANGED batchVars

CallPolish ==
    /\ "polish" \notin called
    /\ retPolish' = polish_construct_messages(argOcr)
    /\ called' = called \cup {"polish"}
    /\ UNCHANGED <<argOcrs, argOcr, argPerm, retEnsemble, retPermuted>>
    /\ UNCHANGED batchVars

NextBuild ==
    \/ CallEnsemble
    \/ CallPermuted
    \/ CallPolish

SpecBuild == InitBuild /\ [][NextBuild]_vars


\* ------------------------------------------------------- claims: the builders

\* How often text t occurs in the sequence s.
Count(s, t) == Cardinality({i \in 1..Len(s) : s[i] = t})

\* The transcriptions a payload carries, in segment order.
CarriedTexts(msgs) ==
    [i \in 1..Len(UserSegments(msgs)) |-> SegText(UserSegments(msgs)[i].content)]

\* The numbers of the header lines of a payload's user segments.
CarriedLabels(msgs) ==
    {SegLabel(UserSegments(msgs)[i].content) : i \in 1..Len(UserSegments(msgs))}

\* C1 as stated: for a non-empty candidate list the ensemble builder returns
\* len+1 segments, the system instruction first, and segment i+1 is a user
\* segment with header number i that contains candidates[i] and contains the
\* label line of no other candidate.
C1_AsStated ==
    ("ensemble" \in called /\ argOcrs # <<>>) =>
        /\ Len(retEnsemble) = Len(argOcrs) + 1
        /\ retEnsemble[1] = [role |-> "system", content |-> EnsSystemPrompt]
        /\ \A i \in 1..Len(argOcrs) :
             /\ retEnsemble[i + 1].role = "user"
             /\ SegLabel(retEnsemble[i + 1].content) = i
             /\ Contains(retEnsemble[i + 1].content, argOcrs[i])
             /\ \A j \in (1..Len(argOcrs)) \ {i} :
                  ~Contains(retEnsemble[i + 1].content, EnsLabel(j))

\* C1 amended: for a non-empty candidate list the ensemble builder returns
\* len+1 segments, the system instruction first, and segment i+1 is a user
\* segment that is exactly the label line of index i, then candidates[i]
\* character for character, then two newlines; its header line carries the
\* number i and it begins with the label line of no other candidate.
C1_Segments ==
    ("ensemble" \in called /\ argOcrs # <<>>) =>
        /\ Len(retEnsemble) = Len(argOcrs) + 1
        /\ retEnsemble[1] = [role |-> "system", content |-> EnsSystemPrompt]
        /\ \A i \in 1..Len(argOcrs) :
             LET c == retEnsemble[i + 1].content
                 n == Len(EnsLabel(i))
             IN  /\ retEnsemble[i + 1].role = "user"
                 /\ SegLabel(c) = i
                 /\ Len(c) = n + Len(argOcrs[i]) + 2
                 /\ SubSeq(c, 1, n) = EnsLabel(i)
                 /\ SubSeq(c, n + 1, n + Len(argOcrs[i])) = argOcrs[i]
                 /\ SubSeq(c, Len(c) - 1, Len(c)) = <<NL, NL>>
                 /\ \A j \in (1..Len(argOcrs)) \ {i} : ~StartsWith(c, EnsLabel(j))

\* The builder has run on two candidates, the first of which quotes the label
\* line of the second.
C1_Witness ==
    /\ "ensemble" \in called
    /\ Len(argOcrs) = 2
    /\ argOcrs[1] = TextQuote
    /\ argOcrs[2] = TextB
    /\ Len(retEnsemble) = 3

\* C5: for every text the polish builder returns the system instruction and
\* exactly one user entry, whose content is the label line, the text, two
\* newlines, and the text again.
C5_PolishPayload ==
    ("polish" \in called) =>
        LET c == retPolish[2].content
            n == Len(PolLabel)
            t == Len(argOcr)
        IN  /\ Len(retPolish) = 2
            /\ retPolish[1] = [role |-> "system", content |-> PolSystemPrompt]
            /\ Len(UserSegments(retPolish)) = 1
            /\ retPolish[2].role = "user"
            /\ Len(c) = n + 2 * t + 2
            /\ SubSeq(c, 1, n) = PolLabel
            /\ SubSeq(c, n + 1, n + t) = argOcr
            /\ SubSeq(c, n + t + 1, n + t + 2) = <<NL, NL>>
            /\ SubSeq(c, n + t + 3, n + 2 * t + 2) = argOcr

\* The polish builder has run on a text of several lines.
C5_Witness ==
    /\ "polish" \in called
    /\ argOcr = TextB
    /\ Len(retPolish) = 2

\* C8: handing the candidates over in another order leaves the multiset of
\* carried texts and the set of labels (1..n) as they were; the text at input
\* position i of either call carries label i.
C8_Permutation ==
    ("permuted" \in called) =>
        LET n == Len(argOcrs)
            given == Permuted(argOcrs, argPerm)
        IN  /\ Len(UserSegments(retPermuted)) = n
            /\ \A t \in Texts :
                 /\ Count(CarriedTexts(retPermuted), t) = Count(argOcrs, t)
                 /\ Count(CarriedTexts(retEnsemble), t) = Count(argOcrs, t)
            /\ CarriedLabels(retPermuted) = 1..n
            /\ CarriedLabels(retEnsemble) = 1..n
            /\ \A i \in 1..n :
                 /\ SegLabel(UserSegments(retPermuted)[i].content) = i
                 /\ SegText(UserSegments(retPermuted)[i].content) = given[i]
                 /\ SegLabel(UserSegments(retEnsemble)[i].content) = i
                 /\ SegText(UserSegments(retEnsemble)[i].content) = argOcrs[i]

\* Two different candidates have been handed over in swapped order, and the
\* labels of the two texts have changed places.
C8_Witness ==
    /\ "permuted" \in called
    /\ Len(argOcrs) = 2
    /\ argOcrs[1] # argOcrs[2]
    /\ argPerm = <<2, 1>>
    /\ SegText(retPermuted[2].content) = SegText(retEnsemble[3].content)
    /\ SegText(retPermuted[3].content) = SegText(retEnsemble[2].content)


\* --------------------------------------------------------- claims: the batch

\* The steps of one document, in program order.
Steps == <<"load", "build", "call", "reply", "write">>

Done(op, k) == \E i \in 1..Len(trace) : trace[i] = Event(op, k)

\* The output directory that results from the given writes, replayed in order.
RECURSIVE Replay(_, _)
Replay(f, ws) ==
    IF ws = <<>> THEN f
    ELSE Replay(WriteFile(f, Head(ws).name, Head(ws).content), Tail(ws))

\* The corpus root the program lists is missing.
RootMissing == ~dirExists \/ (mode = "polish" /\ ~abbyyExists)

\* C2 as stated: in ensemble mode, once a subdirectory without any .txt file
\* has been loaded, main has raised EmptyDocumentError, and no service call
\* was made and no artifact written for that document.
C2_AsStated ==
    \A k \in 1..Len(docs) :
        (mode = "ensemble" /\ TxtFiles(docs[k]) = <<>> /\ Done("load", k)) =>
            /\ pc = "raised"
            /\ error = "EmptyDocumentError"
            /\ ~Done("call", k)
            /\ ~Done("write", k)

\* C3 as stated: in both modes, with the corpus root missing, main ends by
\* raising a file-system error, and no service call and no write has happened.
C3_AsStated ==
    (RootMissing /\ pc # "main") =>
        /\ pc = "raised"
        /\ error = "FileNotFoundError"
        /\ calls = <<>> /\ inflight = 0
        /\ writes = <<>> /\ fs = NoFiles

\* C4: once loading or the service call has failed for the k-th document,
\* main has raised and takes no further step (Done is not reached); no step
\* was taken for a later document, nothing was written for the k-th, and the
\* output directory holds exactly what documents 1..k-1 wrote.
C4_FailFast ==
    (error \in {"UnicodeDecodeError", "APIError"}) =>
        /\ pc = "raised"
        /\ ~ENABLED Next
        /\ idx \in 1..Len(docs)
        /\ \A i \in 1..Len(trace) : trace[i].doc <= idx
        /\ ~Done("write", idx)
        /\ Len(writes) = idx - 1
        /\ \A k \in 1..Len(writes) :
             /\ writes[k].doc = k
             /\ writes[k].name = ArtifactName(mode, docs[k])
        /\ fs = Replay(NoFiles, writes)
        /\ inflight = 0

\* The service call of the second document has failed after the first
\* document's artifact was written.
C4_Witness ==
    /\ error = "APIError"
    /\ idx = 2
    /\ Len(writes) = 1
    /\ Len(docs) >= 3

\* What C6 says of a finished ensemble batch: one service call per
\* subdirectory of the corpus root, and for every subdirectory exactly one
\* artifact, named <subdirectory>-ensemble.txt, holding the text the service
\* returned for that subdirectory's payload; no two share a name.
C6_WhenDone ==
    (mode = "ensemble" /\ pc = "done") =>
        /\ docs = SelectSeq(entries, IsDir)
        /\ Len(calls) = Len(docs)
        /\ Len(writes) = Len(docs)
        /\ DOMAIN fs = {docs[k].name \o EnsembleSuffix : k \in 1..Len(docs)}
        /\ Cardinality(DOMAIN fs) = Len(docs)
        /\ \A k \in 1..Len(docs) :
             /\ calls[k].doc = k
             /\ calls[k].payload = construct_messages(get_ocrs(docs[k]))
             /\ calls[k].reply \in Replies(calls[k].payload)
             /\ fs[docs[k].name \o EnsembleSuffix] = calls[k].reply

\* C6: an ensemble batch in which nothing fails reaches Done, and a finished
\* ensemble batch has made one service call per logical document and holds
\* one artifact per logical document, at <d>-ensemble.txt, with the text the
\* service returned for d's payload.
C6_EnsembleBatch ==
    /\ [](C6_WhenDone)
    /\ (mode = "ensemble") => <>(pc = "done" \/ error # "")

\* An ensemble batch over two subdirectories has finished.
C6_Witness ==
    /\ mode = "ensemble"
    /\ pc = "done"
    /\ Len(docs) = 2
    /\ Cardinality(DOMAIN fs) = 2

\* C7: the steps completed so far are Load, Build, Generate (call, reply),
\* Write of document 1, then those of document 2, and so on, in that order;
\* at most one service call is in flight; every payload sent holds the
\* candidates of its own document and of no other.
C7_Sequential ==
    /\ inflight \in {0, 1}
    /\ inflight = 1 <=> pc = "await"
    /\ \A i \in 1..Len(trace) :
         /\ trace[i].op = Steps[((i - 1) % 5) + 1]
         /\ trace[i].doc = ((i - 1) \div 5) + 1
         /\ trace[i].doc <= Len(docs)
    /\ \A k \in 1..Len(calls) :
         IF mode = "ensemble"
         THEN CarriedTexts(calls[k].payload) = get_ocrs(docs[calls[k].doc])
         ELSE /\ Len(UserSegments(calls[k].payload)) = 1
              /\ calls[k].payload = polish_construct_messages(docs[calls[k].doc].text)
    /\ (pc \in {"generate", "await", "save"}) =>
         IF mode = "ensemble"
         THEN CarriedTexts(messages) = get_ocrs(docs[idx])
         ELSE messages = polish_construct_messages(docs[idx].text)

\* The second document's call is in flight after the first document, which
\* has candidates, was written.
C7_Witness ==
    /\ mode = "ensemble"
    /\ pc = "await"
    /\ idx = 2
    /\ Len(writes) = 1
    /\ get_ocrs(docs[1]) # <<>>
    /\ inflight = 1

\* The output directory a batch over the documents ds leaves behind when
\* nothing fails and the service answers every payload with Echo.
RECURSIVE RunBatch(_, _, _)
RunBatch(m, ds, f) ==
    IF ds = <<>> THEN f
    ELSE RunBatch(m, Tail(ds),
                  WriteFile(f, ArtifactName(m, Head(ds)), Echo(Payload(m, Head(ds)))))

\* C9 as stated: with a service that is a function of the payload and a
\* batch in which nothing fails, the final output directory is the same for
\* every order in which the documents are enumerated, in both modes.
C9_AsStated ==
    (pc = "done" /\ \A k \in 1..Len(calls) : calls[k].reply = Echo(calls[k].payload)) =>
        \A p \in Perms(Len(docs)) : RunBatch(mode, Permuted(docs, p), NoFiles) = fs

\* C10 as stated: in polish mode the artifact name is the source name with
\* ABBYY replaced by PROCESSED, no two source files share an artifact name,
\* and a finished batch has as many artifacts as source files, none of them
\* overwritten by a later document.
C10_AsStated ==
    (mode = "polish") =>
        /\ \A i, j \in 1..Len(docs) :
             i # j => PolArtifactName(docs[i]) # PolArtifactName(docs[j])
        /\ \A k \in 1..Len(writes) :
             writes[k].name = StrReplace(docs[k].name, ABBYY, PROCESSED)
        /\ (pc = "done") =>
             /\ Cardinality(DOMAIN fs) = Len(docs)
             /\ \A k \in 1..Len(writes) : fs[writes[k].name] = writes[k].content

=============================================================================
